---- MODULE Spec2Model ----
(***************************************************************************)
(* Password strength analyser (src/main.py).                               *)
(*                                                                         *)
(* A Python str is modelled as a sequence of one-character strings.  The   *)
(* single non-ASCII character of the model, ARABIC-INDIC DIGIT THREE, is   *)
(* written "U+0663".  Floats that hold bits of entropy are fixed-point     *)
(* integers in millionths of a bit (MICRO); 2^E / 10^10 seconds is compared*)
(* exactly, with arbitrary-precision naturals.                             *)
(***************************************************************************)
EXTENDS Integers, Sequences, FiniteSets, TLC

\* password_entry: the text in the password field.
\* keys:           the edits made since the field was last empty.
\* details:        the outcome of the last call of get_strength_details from
\*                 check_strength_event: the dict it returned, or the
\*                 exception it raised.
\* shown:          what the widgets display.
VARIABLES password_entry, keys, details, shown

vars == <<password_entry, keys, details, shown>>

(***************************************************************************)
(* Static data, lines 10-44.                                               *)
(***************************************************************************)
COMMON_WEAK_WORDS ==
    << <<"p","a","s","s","w","o","r","d">>,
       <<"1","2","3","4","5","6">>,
       <<"q","w","e","r","t","y">>,
       <<"a","d","m","i","n">>,
       <<"q","a","z","w","s","x">>,
       <<"f","o","o","t","b","a","l","l">>,
       <<"s","u","m","m","e","r">>,
       <<"s","p","r","i","n","g">>,
       <<"w","e","l","c","o","m","e">>,
       <<"s","e","c","u","r","e">>,
       <<"s","e","c","r","e","t">>,
       <<"t","e","s","t">>,
       <<"s","h","a","d","o","w">>,
       <<"m","a","s","t","e","r">>,
       <<"d","e","f","a","u","l","t">>,
       <<"c","h","a","n","g","e">>,
       <<"d","r","o","p","b","o","x">>,
       <<"a","m","e","r","i","c","a">>,
       <<"i","n","d","i","a">>,
       <<"g","a","n","e","s","h">>,
       <<"s","h","a","h","a","n">> >>

COMPLEX_WEAK_COMBINATIONS ==
    << <<"m","a","s","t","e","r">>,
       <<"s","h","a","d","o","w">>,
       <<"d","r","a","g","o","n">>,
       <<"n","i","n","j","a">>,
       <<"f","i","r","e","w","a","l","l">>,
       <<"d","a","r","k">>,
       <<"l","i","g","h","t">>,
       <<"o","c","e","a","n">>,
       <<"f","i","r","e">>,
       <<"s","e","c","u","r","e">>,
       <<"s","t","r","o","n","g">>,
       <<"m","a","g","i","c">>,
       <<"p","o","w","e","r">>,
       <<"h","a","p","p","y">>,
       <<"l","o","v","e">> >>

KEYBOARD_PATTERNS ==
    << <<"a","s","d","f","g">>,
       <<"z","x","c","v","b">>,
       <<"q","w","e","r","t">>,
       <<"y","u","i","o","p">>,
       <<"1","2","3","4","5">>,
       <<"5","4","3","2","1">>,
       <<"a","b","c","d","e">>,
       <<"e","d","c","b","a">>,
       <<"q","a","z">>,
       <<"w","s","x">>,
       <<"e","d","c">>,
       <<"r","f","v">>,
       <<"7","8","9">>,
       <<"9","8","7">>,
       <<"4","5","6">>,
       <<"6","5","4">>,
       <<"2","5","8">>,
       <<"1","4","7">> >>

\* The alternatives of r"(123|abc|xyz|qwerty)".
SIMPLE_SEQUENCES ==
    << <<"1","2","3">>,
       <<"a","b","c">>,
       <<"x","y","z">>,
       <<"q","w","e","r","t","y">> >>

\* The alternatives of the group (19|20) of year_pattern.
YEAR_PREFIXES == { <<"1","9">>, <<"2","0">> }

(***************************************************************************)
(* Character classes of the regular expressions.                           *)
(***************************************************************************)
\* [a-z]
RE_LOWER ==
    {"a","b","c","d","e","f","g","h","i","j","k","l","m",
     "n","o","p","q","r","s","t","u","v","w","x","y","z"}

\* [A-Z]
RE_UPPER ==
    {"A","B","C","D","E","F","G","H","I","J","K","L","M",
     "N","O","P","Q","R","S","T","U","V","W","X","Y","Z"}

\* 0-9 inside a character class
RE_ASCII_DIGIT == {"0","1","2","3","4","5","6","7","8","9"}

\* \d of a str pattern: every Unicode decimal digit, not only 0-9.
RE_DIGIT == RE_ASCII_DIGIT \cup {"U+0663"}

\* \s, as far as a string here can name the characters
RE_SPACE == {" ", "\t", "\n", "\r", "\f"}

\* [^a-zA-Z0-9\s]
RE_SYMBOL(c) == c \notin (RE_LOWER \cup RE_UPPER \cup RE_ASCII_DIGIT \cup RE_SPACE)

\* . (no DOTALL flag): any character but a newline
RE_DOT(c) == c # "\n"

\* str.lower() on one character of the model's alphabet.
TO_LOWER ==
    "A" :> "a" @@ "B" :> "b" @@ "C" :> "c" @@ "D" :> "d" @@ "E" :> "e" @@
    "F" :> "f" @@ "G" :> "g" @@ "H" :> "h" @@ "I" :> "i" @@ "J" :> "j" @@
    "K" :> "k" @@ "L" :> "l" @@ "M" :> "m" @@ "N" :> "n" @@ "O" :> "o" @@
    "P" :> "p" @@ "Q" :> "q" @@ "R" :> "r" @@ "S" :> "s" @@ "T" :> "t" @@
    "U" :> "u" @@ "V" :> "v" @@ "W" :> "w" @@ "X" :> "x" @@ "Y" :> "y" @@
    "Z" :> "z"

lower(s) ==
    SubSeq([i \in 1..Len(s) |-> IF s[i] \in RE_UPPER THEN TO_LOWER[s[i]] ELSE s[i]],
           1, Len(s))

(***************************************************************************)
(* Substring and pattern matching.                                         *)
(***************************************************************************)
\* w occurs in s starting at position i.
MatchAt(s, i, w) ==
    /\ i >= 1
    /\ i + Len(w) - 1 <= Len(s)
    /\ \A k \in 1..Len(w) : s[i + k - 1] = w[k]

\* Python's `w in s` for a non-empty w.
In(w, s) == \E i \in 1..(Len(s) - Len(w) + 1) : MatchAt(s, i, w)

\* re.search(r"[a-z]", s) and the three like it, as truth values.
HasLower(s) == \E i \in 1..Len(s) : s[i] \in RE_LOWER
HasUpper(s) == \E i \in 1..Len(s) : s[i] \in RE_UPPER
HasDigit(s) == \E i \in 1..Len(s) : s[i] \in RE_DIGIT
HasSymbol(s) == \E i \in 1..Len(s) : RE_SYMBOL(s[i])

(***************************************************************************)
(* get_character_pool_size, calculate_entropy_bits                         *)
(***************************************************************************)
Max(a, b) == IF a >= b THEN a ELSE b
Min(a, b) == IF a <= b THEN a ELSE b

get_character_pool_size(password) ==
    LET p1 == IF HasLower(password) THEN 26 ELSE 0
        p2 == p1 + (IF HasUpper(password) THEN 26 ELSE 0)
        p3 == p2 + (IF HasDigit(password) THEN 10 ELSE 0)
        p4 == p3 + (IF HasSymbol(password) THEN 33 ELSE 0)
    IN  Max(1, p4)

\* Millionths of a bit.
MICRO == 1000000

\* math.log2 on the values get_character_pool_size returns:
\* floor(10^6 * log2(pool_size)).  For texts of up to 259 characters the
\* products length * LOG2_MICRO round, and compare with whole numbers of bits,
\* exactly as the doubles length * math.log2(pool_size) do.
LOG2_MICRO ==
    1 :> 0 @@ 10 :> 3321928 @@ 26 :> 4700439 @@ 33 :> 5044394 @@
    36 :> 5169925 @@ 43 :> 5426264 @@ 52 :> 5700439 @@ 59 :> 5882643 @@
    62 :> 5954196 @@ 69 :> 6108524 @@ 85 :> 6409390 @@ 95 :> 6569855

math_log2(x) == LOG2_MICRO[x]

\* Faulty variant of calculate_entropy_bits: the length is left out of the
\* product.
calculate_entropy_bits_no_length(password) ==
    IF Len(password) = 0
    THEN 0
    ELSE math_log2(get_character_pool_size(password))

\* The result is in millionths of a bit.
calculate_entropy_bits(password) ==
    LET length == Len(password)
    IN  IF length = 0
        THEN 0
        ELSE length * math_log2(get_character_pool_size(password))

(***************************************************************************)
(* estimate_crack_time                                                     *)
(*                                                                         *)
(* Naturals too large for a machine integer are sequences of base-BASE     *)
(* limbs, least significant first.                                         *)
(***************************************************************************)
BASE == 10000

RECURSIVE BigFromNat(_)
BigFromNat(n) ==
    IF n < BASE THEN <<n>> ELSE <<n % BASE>> \o BigFromNat(n \div BASE)

RECURSIVE BigTimesSmall(_, _, _)
BigTimesSmall(b, k, carry) ==
    IF b = <<>>
    THEN IF carry = 0 THEN <<>> ELSE <<carry>>
    ELSE LET v == Head(b) * k + carry
         IN  <<v % BASE>> \o BigTimesSmall(Tail(b), k, v \div BASE)

RECURSIVE BigTimesPow10(_, _)
BigTimesPow10(b, e) ==
    IF e = 0 THEN b ELSE BigTimesPow10(BigTimesSmall(b, 10, 0), e - 1)

\* floor(b / 2), limbs i..1 with the remainder rem carried in from above.
RECURSIVE BigHalfFrom(_, _, _)
BigHalfFrom(b, i, rem) ==
    IF i = 0
    THEN <<>>
    ELSE LET v == rem * BASE + b[i]
         IN  Append(BigHalfFrom(b, i - 1, v % 2), v \div 2)

BigHalf(b) == BigHalfFrom(b, Len(b), 0)

BigIsZero(b) == \A i \in 1..Len(b) : b[i] = 0

\* b - 1, for b > 0.
RECURSIVE BigPred(_)
BigPred(b) ==
    IF Head(b) > 0
    THEN <<Head(b) - 1>> \o Tail(b)
    ELSE <<BASE - 1>> \o BigPred(Tail(b))

RECURSIVE BigHalveTimes(_, _)
BigHalveTimes(b, k) ==
    IF k = 0 \/ BigIsZero(b) THEN b ELSE BigHalveTimes(BigHalf(b), k - 1)

\* 2^E < N, for a natural E and a big N > 0: floor((N - 1) / 2^E) >= 1.
Pow2Less(E, N) == ~BigIsZero(BigHalveTimes(BigPred(N), E))

\* CRACK_SPEED_PER_SECOND = 1e10, as its power of ten.
CRACK_SPEED_EXP10 == 10

\* SECONDS_IN, each value as m * 10^e seconds.
SECONDS_IN ==
    [ millisecond |-> [m |-> 1, e |-> -3],
      second      |-> [m |-> 1, e |-> 0],
      minute      |-> [m |-> 60, e |-> 0],
      hour        |-> [m |-> 3600, e |-> 0],
      day         |-> [m |-> 86400, e |-> 0],
      month       |-> [m |-> 2592000, e |-> 0],
      year        |-> [m |-> 31536000, e |-> 0],
      century     |-> [m |-> 31536, e |-> 5] ]

\* The literal 1 of `seconds < 1`.
ONE_SECOND == [m |-> 1, e |-> 0]

\* seconds < t, where seconds = math.pow(2, E) / CRACK_SPEED_PER_SECOND:
\* 2^E < t.m * 10^(t.e + 10).  2^E is an exact double, the quotient is
\* correctly rounded and no threshold times 10^10 is within an ulp of a power
\* of two, so the comparison of the doubles is the comparison of the reals.
SecondsLess(E, t) ==
    Pow2Less(E, BigTimesPow10(BigFromNat(t.m), CRACK_SPEED_EXP10 + t.e))

\* math.pow(2, x) raises OverflowError when the result exceeds the largest
\* double, that is for x >= 1024.
FLOAT_MAX_EXP == 1024

Return(v) == [raised |-> FALSE, value |-> v]
Raise(e) == [raised |-> TRUE, value |-> e]

\* The returned text without its number: f"{x:.2f} hours" is "hours".
estimate_crack_time(entropy_bits) ==
    IF entropy_bits <= 0 THEN Return("Instantly")
    ELSE IF entropy_bits >= FLOAT_MAX_EXP THEN Raise("OverflowError")
    ELSE IF SecondsLess(entropy_bits, SECONDS_IN.millisecond)
         THEN Return("Instantly (< 1 ms)")
    ELSE IF SecondsLess(entropy_bits, ONE_SECOND) THEN Return("milliseconds")
    ELSE IF SecondsLess(entropy_bits, SECONDS_IN.minute) THEN Return("seconds")
    ELSE IF SecondsLess(entropy_bits, SECONDS_IN.hour) THEN Return("minutes")
    ELSE IF SecondsLess(entropy_bits, SECONDS_IN.day) THEN Return("hours")
    ELSE IF SecondsLess(entropy_bits, SECONDS_IN.year) THEN Return("days")
    ELSE IF SecondsLess(entropy_bits, SECONDS_IN.century) THEN Return("years")
    ELSE Return("centuries")

(***************************************************************************)
(* calculate_modified_score                                                *)
(***************************************************************************)
\* round(x) of a float x given in millionths: to the nearest integer, ties
\* to the even one.
PyRound(x) ==
    LET q == x \div MICRO
        r == x % MICRO
    IN  IF 2 * r > MICRO THEN q + 1
        ELSE IF 2 * r < MICRO THEN q
        ELSE IF q % 2 = 0 THEN q ELSE q + 1

\* V1 & V6: the first lexicon word found costs 20, once.
DictionaryDeduction(password_lower) ==
    IF \E i \in 1..Len(COMMON_WEAK_WORDS) : In(COMMON_WEAK_WORDS[i], password_lower)
    THEN 20 ELSE 0

\* V2
KeyboardDeduction(password_lower) ==
    IF \E i \in 1..Len(KEYBOARD_PATTERNS) : In(KEYBOARD_PATTERNS[i], password_lower)
    THEN 10 ELSE 0

\* The positions of s at which an occurrence of w starts.
Occurrences(w, s) == {i \in 1..(Len(s) - Len(w) + 1) : MatchAt(s, i, w)}

\* word1 != word2 and f"{word1}{word2}" in password_lower, for some word2.
\* `at` is Occurrences(word1, password_lower): the concatenation occurs where
\* word1 occurs with word2 right behind it.
WordWord(password_lower, word1, at) ==
    \E j \in 1..Len(COMPLEX_WEAK_COMBINATIONS) :
        LET word2 == COMPLEX_WEAK_COMBINATIONS[j]
        IN  /\ word1 # word2
            /\ \E i \in at : MatchAt(password_lower, i + Len(word1), word2)

\* The characters s[p..p+n-1] all match \d.
DigitsAt(s, p, n) == \A k \in 0..(n - 1) : s[p + k] \in RE_DIGIT

\* re.search(f"{word1}\d+[a-z]+", password_lower)
WordDigitWord(password_lower, word1, at) ==
    \E i \in at :
        LET p == i + Len(word1)
        IN  \E n \in 1..(Len(password_lower) - p) :
                /\ DigitsAt(password_lower, p, n)
                /\ password_lower[p + n] \in RE_LOWER

\* $ without MULTILINE: at the end, or before a newline that ends the string.
AtEnd(s, q) == q = Len(s) + 1 \/ (q = Len(s) /\ s[q] = "\n")

\* re.search(f"{word1}\d{{3,4}}$", password_lower)
WordDigitsEnd(password_lower, word1, at) ==
    \E i \in at :
        LET p == i + Len(word1)
        IN  \E n \in {3, 4} :
                /\ p + n - 1 <= Len(password_lower)
                /\ DigitsAt(password_lower, p, n)
                /\ AtEnd(password_lower, p + n)

\* V8: the loop over word1 from index i on; what it deducts.
RECURSIVE AiLoop(_, _)
AiLoop(password_lower, i) ==
    IF i > Len(COMPLEX_WEAK_COMBINATIONS) THEN 0
    ELSE LET word1 == COMPLEX_WEAK_COMBINATIONS[i]
             at == Occurrences(word1, password_lower)
         IN  IF WordWord(password_lower, word1, at) THEN 30
             ELSE IF WordDigitWord(password_lower, word1, at) THEN 20
             ELSE IF WordDigitsEnd(password_lower, word1, at) THEN 20
             ELSE AiLoop(password_lower, i + 1)

AiDeduction(password_lower) == AiLoop(password_lower, 1)

\* re.search(r"(.{n})\1+", password)
BlockRepeat(password, n) ==
    \E i \in 1..(Len(password) - 2 * n + 1) :
        \A k \in 0..(n - 1) :
            RE_DOT(password[i + k]) /\ password[i + k] = password[i + n + k]

\* V3
BlockDeduction(password) ==
    IF Len(password) >= 4
    THEN (IF BlockRepeat(password, 2) THEN 15 ELSE 0)
         + (IF BlockRepeat(password, 3) THEN 15 ELSE 0)
    ELSE 0

\* The matches of re.findall(r"(.)\1{2,}", s), by their first position.
\* Matches do not overlap and a greedy match takes a whole run, so there is
\* one match for each maximal run of three or more equal characters.
RunStarts(s) ==
    {i \in 1..(Len(s) - 2) :
        /\ RE_DOT(s[i])
        /\ s[i + 1] = s[i]
        /\ s[i + 2] = s[i]
        /\ (i = 1 \/ s[i - 1] # s[i])}

RunDeduction(password) == Cardinality(RunStarts(password)) * 10

\* year_pattern matches at position j of s.
YearAt(s, j) ==
    /\ j + 3 <= Len(s)
    /\ <<s[j], s[j + 1]>> \in YEAR_PREFIXES
    /\ s[j + 2] \in RE_DIGIT
    /\ s[j + 3] \in RE_DIGIT

contains_year(password) == \E j \in 1..(Len(password) - 3) : YearAt(password, j)

\* .* matches s[a..b-1]
DotStar(s, a, b) == \A k \in a..(b - 1) : RE_DOT(s[k])

\* re.search(f"{word}.*{year_pattern}", s)
WordThenYear(s, word) ==
    \E i \in 1..(Len(s) - Len(word) + 1) :
        /\ MatchAt(s, i, word)
        /\ \E j \in (i + Len(word))..(Len(s) - 3) :
               YearAt(s, j) /\ DotStar(s, i + Len(word), j)

\* re.search(f"{year_pattern}.*{word}", s)
YearThenWord(s, word) ==
    \E j \in 1..(Len(s) - 3) :
        /\ YearAt(s, j)
        /\ \E i \in (j + 4)..(Len(s) - Len(word) + 1) :
               MatchAt(s, i, word) /\ DotStar(s, j + 4, i)

\* Faulty variant of PredictableDeduction: a year and a symbol are enough, no
\* lexicon word is looked for.
PredictableDeduction_no_word(password, password_lower) ==
    IF contains_year(password) /\ HasSymbol(password) THEN 25 ELSE 0

\* V7
PredictableDeduction(password, password_lower) ==
    IF /\ contains_year(password)
       /\ HasSymbol(password)
       /\ \E i \in 1..Len(COMMON_WEAK_WORDS) :
              \/ WordThenYear(password_lower, COMMON_WEAK_WORDS[i])
              \/ YearThenWord(password_lower, COMMON_WEAK_WORDS[i])
    THEN 25 ELSE 0

\* re.search(r"(123|abc|xyz|qwerty)", password, re.IGNORECASE): on the
\* model's alphabet, ignoring case is matching the lowercased text.
HasSimpleSequence(password) ==
    \E i \in 1..Len(SIMPLE_SEQUENCES) : In(SIMPLE_SEQUENCES[i], lower(password))

SequenceDeduction(password) == IF HasSimpleSequence(password) THEN 10 ELSE 0

\* Everything the function subtracts, in bits.
Deductions(password) ==
    LET password_lower == lower(password)
    IN  DictionaryDeduction(password_lower)
        + KeyboardDeduction(password_lower)
        + AiDeduction(password_lower)
        + BlockDeduction(password)
        + RunDeduction(password)
        + PredictableDeduction(password, password_lower)
        + SequenceDeduction(password)

\* Faulty variant of calculate_modified_score: the result is not floored at 0.
calculate_modified_score_no_floor(password, entropy_bits) ==
    PyRound(entropy_bits - Deductions(password) * MICRO)

\* entropy_bits is in millionths of a bit; the result is an integer of bits.
calculate_modified_score(password, entropy_bits) ==
    LET score == entropy_bits - Deductions(password) * MICRO
    IN  Max(0, PyRound(score))

(***************************************************************************)
(* get_strength_details                                                    *)
(***************************************************************************)
\* A feedback line: which message, and the value formatted into it.
Line(msg, arg) == [msg |-> msg, arg |-> arg]

\* percent as the fraction num / den.
Fraction(num, den) == [num |-> num, den |-> den]

ZERO_STATE ==
    [ score |-> 0, strength |-> "No Password", color |-> "#D1D5DB",
      percent |-> Fraction(0, 1), time_to_crack |-> "N/A",
      feedback |-> << Line("Please enter a password", <<>>) >> ]

\* min(100, effective_entropy * 100 / 75)
Percent(effective_entropy) ==
    IF effective_entropy * 100 >= 100 * 75
    THEN Fraction(100, 1)
    ELSE Fraction(effective_entropy * 100, 75)

Classify(effective_entropy) ==
    IF effective_entropy >= 65
    THEN [strength |-> "Excellent (Uncrackable)", color |-> "#10B981"]
    ELSE IF effective_entropy >= 51
    THEN [strength |-> "Strong", color |-> "#059669"]
    ELSE IF effective_entropy >= 35
    THEN [strength |-> "Moderate", color |-> "#F59E0B"]
    ELSE IF effective_entropy >= 15
    THEN [strength |-> "Weak", color |-> "#EF4444"]
    ELSE [strength |-> "Too Weak", color |-> "#B91C1C"]

LengthFeedback(password) ==
    IF Len(password) < 10
    THEN << Line("Length: Must be at least 10 characters", <<Len(password)>>) >>
    ELSE << Line("Length: Good", <<Len(password)>>) >>

ComplexityLine(key, passed) ==
    IF ~passed
    THEN Line("Complexity: Include at least one", key)
    ELSE Line("Complexity: Includes", key)

ComplexityFeedback(password) ==
    << ComplexityLine("Lowercase letters (a-z)", HasLower(password)),
       ComplexityLine("Uppercase letters (A-Z)", HasUpper(password)),
       ComplexityLine("Digits (0-9)", HasDigit(password)),
       ComplexityLine("Symbols (!@#$)", HasSymbol(password)) >>

AI_CONCAT_LINE == Line("AI Heuristic (V8): Detects concatenated common words", <<>>)
AI_DIGITS_LINE ==
    Line("AI Heuristic (V8): Detects common word combined with short numbers/years", <<>>)

\* V8 feedback: the second loop over word1, from index i on.
RECURSIVE AiFeedbackLoop(_, _)
AiFeedbackLoop(password_lower, i) ==
    IF i > Len(COMPLEX_WEAK_COMBINATIONS) THEN <<>>
    ELSE LET word1 == COMPLEX_WEAK_COMBINATIONS[i]
             at == Occurrences(word1, password_lower)
         IN  IF WordWord(password_lower, word1, at)
             THEN << AI_CONCAT_LINE >>
             ELSE IF \/ WordDigitWord(password_lower, word1, at)
                     \/ WordDigitsEnd(password_lower, word1, at)
             THEN << AI_DIGITS_LINE >>
             ELSE AiFeedbackLoop(password_lower, i + 1)

\* V1/V6 feedback: the first lexicon word found, if any.
BreachFeedback(password_lower) ==
    LET hits == {i \in 1..Len(COMMON_WEAK_WORDS) :
                    In(COMMON_WEAK_WORDS[i], password_lower)}
    IN  IF hits = {} THEN <<>>
        ELSE LET first == CHOOSE i \in hits : \A h \in hits : i <= h
             IN  << Line("Breach Risk (V6): Contains", COMMON_WEAK_WORDS[first]) >>

GENERIC_WARNING == Line("Warning: Contains easily guessable patterns (V2/V3/V7)", <<>>)

\* initial_entropy is in millionths of a bit.
GenericFeedback(is_weak_word, is_ai_weak, effective_entropy, initial_entropy) ==
    IF ~is_weak_word /\ ~is_ai_weak /\ effective_entropy * MICRO < initial_entropy
    THEN << GENERIC_WARNING >>
    ELSE <<>>

PatternFeedback(password) ==
    (IF BlockRepeat(password, 2) \/ BlockRepeat(password, 3)
     THEN << Line("Repetition (V3): Contains repeated blocks", <<>>) >> ELSE <<>>)
    \o (IF RunStarts(password) # {}
        THEN << Line("Repetition: Contains triple or more repetitive characters", <<>>) >>
        ELSE <<>>)
    \o (IF HasSimpleSequence(password)
        THEN << Line("Warning: Contains simple sequential patterns", <<>>) >>
        ELSE <<>>)

get_strength_details(password) ==
    IF Len(password) = 0 THEN Return(ZERO_STATE)
    ELSE
    LET initial_entropy == calculate_entropy_bits(password)
        effective_entropy == calculate_modified_score(password, initial_entropy)
        time_to_crack == estimate_crack_time(effective_entropy)
        level == Classify(effective_entropy)
        ai == AiFeedbackLoop(lower(password), 1)
        breach == BreachFeedback(lower(password))
    IN  IF time_to_crack.raised THEN time_to_crack
        ELSE Return(
          [ score |-> effective_entropy,
            strength |-> level.strength,
            color |-> level.color,
            percent |-> Percent(effective_entropy),
            time_to_crack |-> time_to_crack.value,
            feedback |->
                LengthFeedback(password) \o ComplexityFeedback(password)
                \o ai \o breach
                \o GenericFeedback(breach # <<>>, ai # <<>>,
                                   effective_entropy, initial_entropy)
                \o PatternFeedback(password) ])

(***************************************************************************)
(* PasswordCheckerApp                                                      *)
(***************************************************************************)
\* What check_strength_event writes into the widgets.
Widgets(password, d) ==
    [ strength_label |-> [text |-> d.strength, foreground |-> d.color],
      time_label |->
          [ text |-> d.time_to_crack,
            foreground |-> IF d.score < 35 THEN "#CC0000"
                           ELSE IF d.score < 51 THEN "#F59E0B" ELSE "#059669" ],
      score_label |-> d.score,
      strength_bar |-> [style |-> d.color, value |-> d.percent],
      feedback_text |->
          IF password # <<>> THEN d.feedback
          ELSE << Line("Start typing your password to see the analysis.", <<>>) >> ]

\* Bounds of the model: edits since the entry was last empty, and the
\* length of the entry's text.
MaxKeys == 3
MaxLen == 180

\* "Tr0ub4dor&9Zk#mQ7pL"
SCENARIO_TEXT ==
    <<"T","r","0","u","b","4","d","o","r","&","9","Z","k","#","m","Q","7","p","L">>

RECURSIVE Repeat(_, _)
Repeat(s, n) == IF n = 0 THEN <<>> ELSE s \o Repeat(s, n - 1)

\* A pasted text of 179 characters.
LONG_TEXT == <<"l","o","v","e","d","a","r","k">> \o Repeat(SCENARIO_TEXT, 9)

\* What one edit of the entry appends: a typed character or a pasted text.
TypedText ==
    { <<"a">>, <<"A">>, <<"!">>, <<" ">>, <<"U+0663">>,
      <<"l","o","v","e">>, <<"d","a","r","k">>, <<"t","e","s","t">>,
      <<"1","2","3">>, <<"1","9","9","0">>,
      LONG_TEXT }

\* check_strength_event with `password` in the entry.  An exception leaves
\* the handler before it touches a widget.
check_strength_event(password) ==
    /\ details' = get_strength_details(password)
    /\ shown' = IF details'.raised THEN shown
                ELSE Widgets(password, details'.value)

Init ==
    /\ password_entry = <<>>
    /\ keys = 0
    /\ details = get_strength_details(<<>>)
    /\ shown = Widgets(<<>>, ZERO_STATE)

\* The user appends text to the entry; the key release runs the handler.
TypeText(text) ==
    /\ keys < MaxKeys
    /\ Len(password_entry) + Len(text) <= MaxLen
    /\ password_entry' = password_entry \o text
    /\ keys' = keys + 1
    /\ check_strength_event(password_entry')

\* The user empties the entry; the key release runs the handler.
ClearEntry ==
    /\ password_entry # <<>>
    /\ password_entry' = <<>>
    /\ keys' = 0
    /\ check_strength_event(password_entry')

Next ==
    \/ \E text \in TypedText : TypeText(text)
    \/ ClearEntry

Spec == Init /\ [][Next]_vars

(***************************************************************************)
(* Properties.                                                             *)
(***************************************************************************)
\* calculate_entropy_bits(text), in millionths of a bit, and
\* calculate_modified_score(text, calculate_entropy_bits(text)), for the text
\* in the entry.
RawEntropy == calculate_entropy_bits(password_entry)
EffectiveEntropy == calculate_modified_score(password_entry, RawEntropy)

\* The messages of the feedback of the last call, when it returned.
FeedbackHas(line) ==
    \E i \in 1..Len(details.value.feedback) : details.value.feedback[i].msg = line.msg

\* The texts one more edit can append to the entry's text.
Extensions == {text \in TypedText : Len(password_entry) + Len(text) <= MaxLen}

\* The single characters a user types in the model.
TypedChars == {text[1] : text \in {t \in TypedText : Len(t) = 1}}

------------------------------------------------------------------------------
\* C1, as stated: for every text the effective entropy is >= 0 and <= the raw
\* entropy; neither the penalties nor the final rounding add score.
C1_EffectiveAtMostRaw ==
    /\ EffectiveEntropy >= 0
    /\ EffectiveEntropy * MICRO <= RawEntropy

\* C1, amended: for every text the effective entropy is >= 0 and <= the raw
\* entropy rounded to the nearest integer, so it exceeds the raw entropy by
\* at most half a bit, and only through the final rounding.
C1_EffectiveAtMostRoundedRaw ==
    LET raw == RawEntropy
        effective == calculate_modified_score(password_entry, raw)
    IN  /\ effective >= 0
        /\ effective <= PyRound(raw)
        /\ effective * MICRO - raw <= MICRO \div 2

\* C1: a text whose penalties exceed its raw entropy, floored at 0.
C1_Witness ==
    /\ RawEntropy > 0
    /\ Deductions(password_entry) * MICRO > RawEntropy
    /\ EffectiveEntropy = 0

------------------------------------------------------------------------------
PIPELINE_TIERS ==
    {"Excellent (Uncrackable)", "Strong", "Moderate", "Weak", "Too Weak"}

\* C2: the empty text gets the zero-state (score 0, "No Password", percent 0,
\* "N/A", one feedback line); every non-empty text, whitespace-only included,
\* gets one of the five pipeline tiers, never "No Password", and a
\* time_to_crack that is never "N/A".
C2_ZeroStateOnlyForEmpty ==
    /\ password_entry = <<>> =>
           /\ ~details.raised
           /\ details.value.score = 0
           /\ details.value.strength = "No Password"
           /\ details.value.percent.num = 0
           /\ details.value.time_to_crack = "N/A"
           /\ Len(details.value.feedback) = 1
    /\ password_entry # <<>> =>
           /\ ~details.raised
           /\ details.value.strength \in PIPELINE_TIERS
           /\ details.value.time_to_crack # "N/A"

------------------------------------------------------------------------------
\* The tier the thresholds of C3 give to e.
TierOf(e) ==
    CASE e >= 65 -> "Excellent (Uncrackable)"
      [] e >= 51 /\ e < 65 -> "Strong"
      [] e >= 35 /\ e < 51 -> "Moderate"
      [] e >= 15 /\ e < 35 -> "Weak"
      [] e < 15 -> "Too Weak"

\* C3: for every non-empty text the result carries the tier of the effective
\* entropy e by the descending thresholds 65, 51, 35, 15, the score is a
\* non-negative integer, and percent = min(100, e * 100 / 75) lies in
\* [0, 100] and is 100 exactly when e >= 75.
C3_TierAndPercent ==
    password_entry # <<>> =>
        /\ ~details.raised
        /\ LET e == EffectiveEntropy
               pct == details.value.percent
           IN  /\ details.value.score = e
               /\ e \in Nat
               /\ details.value.strength = TierOf(e)
               /\ pct.num * 75 = pct.den * Min(100 * 75, e * 100)
               /\ 0 <= pct.num /\ pct.num <= 100 * pct.den
               /\ (pct.num = 100 * pct.den) <=> (e >= 75)

------------------------------------------------------------------------------
\* The lowercased text contains two distinct composite-lexicon words, one
\* right after the other.
HasConcatenation(password_lower) ==
    \E i, j \in 1..Len(COMPLEX_WEAK_COMBINATIONS) :
        /\ COMPLEX_WEAK_COMBINATIONS[i] # COMPLEX_WEAK_COMBINATIONS[j]
        /\ In(COMPLEX_WEAK_COMBINATIONS[i] \o COMPLEX_WEAK_COMBINATIONS[j],
              password_lower)

\* C4: the composite heuristic deducts exactly one of 0, 20, 30, and deducts
\* 30 whenever the lowercased text contains two distinct composite-lexicon
\* words directly concatenated, even if a word+digits sub-rule matches too.
C4_ConcatenationWins ==
    LET password_lower == lower(password_entry)
    IN  /\ AiDeduction(password_lower) \in {0, 20, 30}
        /\ HasConcatenation(password_lower) => AiDeduction(password_lower) = 30

------------------------------------------------------------------------------
\* C5: for every non-empty text the generic "easily guessable patterns"
\* warning is in the feedback only if neither the AI-heuristic line nor the
\* breach line was emitted and the scoring pass deducted at least one
\* penalty; a text that triggers no detector never gets the warning.
C5_WarningNeedsPenalty ==
    (password_entry # <<>> /\ ~details.raised /\ FeedbackHas(GENERIC_WARNING)) =>
        /\ ~FeedbackHas(AI_CONCAT_LINE)
        /\ ~FeedbackHas(AI_DIGITS_LINE)
        /\ ~FeedbackHas(Line("Breach Risk (V6): Contains", <<>>))
        /\ Deductions(password_entry) > 0

------------------------------------------------------------------------------
\* C6, as stated: calculate_entropy_bits("") is 0, and of two texts with the
\* same pool size, whatever that size, 1 included, the longer one has
\* strictly greater raw entropy.  The pairs are the entry's text with each
\* text one edit extends it to, and with each shorter text that one edit types.
C6_LongerIsGreater ==
    /\ calculate_entropy_bits(<<>>) = 0
    /\ \A text \in Extensions :
           LET longer == password_entry \o text
           IN  /\ get_character_pool_size(longer)
                      = get_character_pool_size(password_entry)
                   => calculate_entropy_bits(longer) > RawEntropy
               /\ (/\ get_character_pool_size(text)
                          = get_character_pool_size(password_entry)
                   /\ Len(text) < Len(password_entry))
                   => calculate_entropy_bits(text) < RawEntropy

\* a is shorter than b and has the same pool size: then its raw entropy is
\* strictly smaller when the pool size exceeds 1, and both are 0 when it is 1.
LongerIsGreaterUnlessPoolOne(a, b) ==
    (Len(a) < Len(b) /\ get_character_pool_size(a) = get_character_pool_size(b)) =>
        IF get_character_pool_size(a) > 1
        THEN calculate_entropy_bits(a) < calculate_entropy_bits(b)
        ELSE calculate_entropy_bits(a) = 0 /\ calculate_entropy_bits(b) = 0

\* C6, amended: calculate_entropy_bits("") is 0, and of two texts with the
\* same pool size greater than 1 the longer one has strictly greater raw
\* entropy; with pool size 1 (empty or whitespace-only text) the raw entropy
\* is 0 at every length.
C6_LongerIsGreaterAbovePoolOne ==
    /\ calculate_entropy_bits(<<>>) = 0
    /\ \A text \in Extensions :
           /\ LongerIsGreaterUnlessPoolOne(password_entry, password_entry \o text)
           /\ LongerIsGreaterUnlessPoolOne(text, password_entry)

\* C6: a text of pool size above 1 that some typed text extends without
\* changing the pool size.
C6_Witness ==
    /\ get_character_pool_size(password_entry) > 1
    /\ \E text \in Extensions :
           /\ get_character_pool_size(password_entry \o text)
                  = get_character_pool_size(password_entry)
           /\ calculate_entropy_bits(password_entry \o text) > RawEntropy

------------------------------------------------------------------------------
\* The units of estimate_crack_time, from the finest to the coarsest.
UNIT_ORDER ==
    << "Instantly", "Instantly (< 1 ms)", "milliseconds", "seconds", "minutes",
       "hours", "days", "years", "centuries" >>

UnitRank(unit) == CHOOSE i \in 1..Len(UNIT_ORDER) : UNIT_ORDER[i] = unit

\* The thresholds of C7, in seconds, each with the unit chosen below it.
THRESHOLDS ==
    << [below |-> SECONDS_IN.millisecond, unit |-> "Instantly (< 1 ms)"],
       [below |-> ONE_SECOND, unit |-> "milliseconds"],
       [below |-> SECONDS_IN.minute, unit |-> "seconds"],
       [below |-> SECONDS_IN.hour, unit |-> "minutes"],
       [below |-> SECONDS_IN.day, unit |-> "hours"],
       [below |-> SECONDS_IN.year, unit |-> "days"],
       [below |-> SECONDS_IN.century, unit |-> "years"] >>

\* The unit C7 gives to an effective entropy E > 0.
UnitByThresholds(E) ==
    LET under == {i \in 1..Len(THRESHOLDS) : SecondsLess(E, THRESHOLDS[i].below)}
    IN  IF under = {} THEN "centuries"
        ELSE THRESHOLDS[CHOOSE i \in under : \A k \in under : i <= k].unit

\* C7: for every integer effective entropy E, estimate_crack_time returns
\* "Instantly" iff E <= 0 and otherwise the unit of the first threshold that
\* 2^E / 10^10 seconds is below, so the unit never gets finer as E grows.
\* E ranges over the effective entropy of the entry's text and its two
\* neighbours.
C7_UnitByThresholds ==
    \A E \in {EffectiveEntropy - 1, EffectiveEntropy, EffectiveEntropy + 1} :
        /\ ~estimate_crack_time(E).raised
        /\ (estimate_crack_time(E).value = "Instantly") <=> (E <= 0)
        /\ E > 0 => estimate_crack_time(E).value = UnitByThresholds(E)
        /\ ~estimate_crack_time(E + 1).raised
        /\ UnitRank(estimate_crack_time(E).value)
               <= UnitRank(estimate_crack_time(E + 1).value)

------------------------------------------------------------------------------
\* The character classes of C8: a symbol is a character that is not a
\* letter, not a digit and not whitespace.
IsSymbolOfC8(c) == c \notin (RE_LOWER \cup RE_UPPER \cup RE_DIGIT \cup RE_SPACE)

PoolSizeOfC8(text) ==
    LET sum == (IF \E i \in 1..Len(text) : text[i] \in RE_LOWER THEN 26 ELSE 0)
             + (IF \E i \in 1..Len(text) : text[i] \in RE_UPPER THEN 26 ELSE 0)
             + (IF \E i \in 1..Len(text) : text[i] \in RE_DIGIT THEN 10 ELSE 0)
             + (IF \E i \in 1..Len(text) : IsSymbolOfC8(text[i]) THEN 33 ELSE 0)
    IN  IF sum = 0 THEN 1 ELSE sum

\* C8: get_character_pool_size is the sum of 26, 26, 10, 33 over the classes
\* present (lowercase, uppercase, digit, symbol = not letter/digit/
\* whitespace), 1 when none is; it is >= 1 and never decreases when a
\* character is appended.
C8_PoolIsSumOfClasses ==
    /\ get_character_pool_size(password_entry) = PoolSizeOfC8(password_entry)
    /\ get_character_pool_size(password_entry) >= 1
    /\ \A c \in TypedChars :
           get_character_pool_size(Append(password_entry, c))
               >= get_character_pool_size(password_entry)

------------------------------------------------------------------------------
\* How many lines of the feedback of the last call are AI-heuristic lines.
AiLineCount ==
    Cardinality({i \in 1..Len(details.value.feedback) :
                    details.value.feedback[i].msg
                        \in {AI_CONCAT_LINE.msg, AI_DIGITS_LINE.msg}})

\* C9: for every non-empty text the feedback has at most one AI-heuristic
\* line, the 'concatenated common words' line iff calculate_modified_score
\* deducted the -30 composite penalty, and the 'common word combined with
\* short numbers/years' line iff it deducted the -20 composite penalty.
C9_FeedbackAgreesWithScore ==
    password_entry # <<>> =>
        /\ ~details.raised
        /\ AiLineCount <= 1
        /\ FeedbackHas(AI_CONCAT_LINE) <=> (AiDeduction(lower(password_entry)) = 30)
        /\ FeedbackHas(AI_DIGITS_LINE) <=> (AiDeduction(lower(password_entry)) = 20)

------------------------------------------------------------------------------
\* C10: whenever calculate_modified_score deducts the predictable-component
\* penalty (25) it deducts the dictionary/breach penalty (20) too, so the
\* text loses at least 45 bits before the floor at 0.
C10_PredictableImpliesDictionary ==
    LET password_lower == lower(password_entry)
    IN  PredictableDeduction(password_entry, password_lower) = 25 =>
            /\ DictionaryDeduction(password_lower) = 20
            /\ Deductions(password_entry) >= 45

\* C10: a text on which the predictable-component penalty is deducted.
C10_Witness ==
    PredictableDeduction(password_entry, lower(password_entry)) = 25

====
